---------------------------- MODULE Spec2Model ----------------------------
(***************************************************************************)
(* Model of the homenet-peer VPN fabric (package vpn) : the constructor    *)
(* New, the handle swap setNetwork, the teardown Close, the reconciliation *)
(* of the own address (OnHomenetUpdatePeers -> updatePeers ->              *)
(* updatePeerIntAlias) and the frame pump tapReadHandler.                  *)
(*                                                                         *)
(* Threads of the model:                                                   *)
(*   "main"      the goroutine that runs New (from line 66 on)             *)
(*   Closers     goroutines that call Close / OnHomenetClose               *)
(*   HookCallers goroutines of the control plane that deliver              *)
(*               OnHomenetUpdatePeers                                      *)
(*   the reader goroutine and the dispatch loop of tapReadHandler          *)
(***************************************************************************)
EXTENDS Integers, Sequences, FiniteSets, TLC

(***************************************************************************)
(* Bounds of the model.                                                    *)
(***************************************************************************)
\* aliases the control plane hands out are 0..MaxAlias
MaxAlias == 4
\* number of OnHomenetUpdatePeers deliveries in one behaviour
MaxCalls == 2
\* number of device reads in one behaviour
MaxReads == 3
\* number of ticks of the polling loop of main in one behaviour
MaxTicks == 3

Aliases == 0..MaxAlias

Closers == {"c1"}
\* goroutines that call Close when a Close has already been called
SecondClosers == {"c2"}
HookCallers == {"h1", "h2"}
Threads == {"main"} \cup Closers \cup SecondClosers

\* the peers of the directory other than this one, and their aliases
OtherPeers == {"p1", "p2"}
SelfPeerID == "self"

PeerAlias(p) == IF p = "p1" THEN 1 ELSE 2

(***************************************************************************)
(* Operator-configured subnets (net.IPNet handed to New): the last octet   *)
(* of the base address and the number of host bits of the mask.            *)
(* 10.0.0.248/29 and 10.0.0.252/30.                                        *)
(***************************************************************************)
Subnets == {[octet |-> 248, hostBits |-> 3], [octet |-> 252, hostBits |-> 2]}

(***************************************************************************)
(* Addressing scheme.  A link address is a tuple of 6 octets.              *)
(***************************************************************************)
HomenetTag == <<2, 72>>

\* a uint32 as its 4 octets, most significant first (a decoded alias can
\* pass 2^31, which the integers of the checker cannot hold)
Uint32(a) ==
    <<(a \div 16777216) % 256, (a \div 65536) % 256, (a \div 256) % 256, a % 256>>

GenerateHomenetMAC(a) == HomenetTag \o Uint32(a)

BroadcastMAC == <<255, 255, 255, 255, 255, 255>>
ZeroMAC == <<0, 0, 0, 0, 0, 0>>
\* an ordinary external unicast address
ForeignMAC == <<0, 22, 62, 1, 2, 3>>

IsHomenet(mac) == mac[1] = HomenetTag[1] /\ mac[2] = HomenetTag[2]
IsBroadcast(mac) == \A i \in 1..6 : mac[i] = 255
\* the alias carried by a link address, as the octets of a uint32
MACGetPeerIntAlias(mac) == <<mac[3], mac[4], mac[5], mac[6]>>

VARIABLES
    network,          \* vpn.network (atomic.Value): "unset", "homenet" or "nil"
    hookers,          \* handles on which the vpn is registered as a hooker
    locker,           \* vpn.locker: "free" or the thread that holds it
    tpc,              \* position of "main" and of each closer
    devClosed,        \* tapIface.Close() was called
    selfAlias,        \* what network.GetPeerIntAlias() returns now
    oldPeerIntAlias,  \* vpn.oldPeerIntAlias
    subnet,           \* vpn.subnet: [octet, hostBits]; octet is subnet.IP[3]
    linkMAC,          \* link address of the device (<< >>: not set by the vpn)
    linkIP,           \* last octet of the device's IP (-1: not set by the vpn)
    linkUp,           \* device is administratively up
    hpc,              \* position of each hook caller
    halias,           \* its local peerIntAlias / newPeerIntAlias
    hret,             \* what its last OnHomenetUpdatePeers returned
    hist,             \* history of the behaviour, read only by the properties
    rpc,              \* position of the reader goroutine of tapReadHandler
    dpc,              \* position of the dispatch loop of tapReadHandler
    framebuf,         \* the shared frame buffer: the destination now in it, and
                      \* the read that wrote the bytes now in it
    pending,          \* the readChanMsg the reader is about to send
    msg,              \* the readChanMsg the dispatch loop received last
    others,           \* the peers of the directory other than this one
    nReads,           \* device reads so far
    sent,             \* the SendToPeer calls of the current dispatch iteration
    phist,            \* history of the current dispatch iteration
    mainpc,           \* position of main in its polling loop
    tick,             \* ticks of the ticker received so far
    tickPeers,        \* peers, as the GetPeers of this tick returned it
    pollOps,          \* the calls of this tick so far, with their outcome
    prevFailures      \* how many calls of the tick before failed

ctlVars == <<network, hookers, locker, tpc, devClosed>>
recVars == <<selfAlias, oldPeerIntAlias, subnet, linkMAC, linkIP, linkUp,
             hpc, halias, hret, hist>>
pumpVars == <<rpc, dpc, framebuf, pending, msg, others, nReads, sent, phist>>
pollVars == <<mainpc, tick, tickPeers, pollOps, prevFailures>>
vars == <<ctlVars, recVars, pumpVars, pollVars>>

(***************************************************************************)
(* History kept for the properties.                                        *)
(*   base        last octet of the configured subnet base, as handed to New*)
(*   calls       OnHomenetUpdatePeers deliveries so far                    *)
(*   concurrent  two deliveries have overlapped in time                    *)
(*   first       what the first updatePeers did: "skipped" / "reconciled"  *)
(*   last        how the last call that returned ended: "noop" (alias      *)
(*               unchanged), "applied" or "failed"                         *)
(*   failed      a transition has failed                                   *)
(*   lastFail    the last failed transition, forgotten at the next success *)
(*   ops[h]      the mutations the running call of h has performed so far  *)
(***************************************************************************)
NoFail == [alias |-> -1, step |-> "none", clean |-> FALSE]

\* a readChanMsg, with the read it reports and the destination that read returned
NoMsg == [err |-> FALSE, id |-> 0, dst |-> ZeroMAC]

\* history of a dispatch iteration: the directory changed since the frame was
\* received; a later read wrote into the buffer while the iteration was
\* running; the lookup of SendToPeerByIntAlias (alias looked up, the
\* directory then, whether ErrPeerNotFound was returned); vpn.locker was held
\* by some goroutine when the frame was dispatched; the branch the
\* iteration took ("unicast", "broadcast" or "drop")
NoLookup == [done |-> FALSE, alias |-> <<0, 0, 0, 0>>, peers |-> << >>, notFound |-> FALSE]
NewIteration ==
    [dirChanged |-> FALSE, overwritten |-> FALSE, lookup |-> NoLookup,
     underLock |-> FALSE, branch |-> "none"]

InitPump ==
    /\ rpc = "off"
    /\ dpc = "off"
    /\ framebuf = [dst |-> ZeroMAC, id |-> 0]
    /\ pending = NoMsg
    /\ msg = NoMsg
    /\ others = {}
    /\ nReads = 0
    /\ sent = << >>
    /\ phist = NewIteration

\* main, line 107: the ticker is made, no tick received yet
InitPoll ==
    /\ mainpc = "ticker"
    /\ tick = 0
    /\ tickPeers = {}
    /\ pollOps = << >>
    /\ prevFailures = 0

Init ==
    /\ InitPump
    /\ InitPoll
    /\ network = "unset"
    /\ hookers = {}
    /\ locker = "free"
    /\ tpc = [t \in Threads |-> IF t = "main" THEN "LockDo_setNetwork" ELSE "idle"]
    /\ devClosed = FALSE
    /\ selfAlias = 0
    /\ oldPeerIntAlias = 0
    /\ subnet \in Subnets
    /\ linkMAC = << >>
    /\ linkIP = -1
    /\ linkUp = TRUE
    /\ hpc = [h \in HookCallers |-> "idle"]
    /\ halias = [h \in HookCallers |-> 0]
    /\ hret = [h \in HookCallers |-> "none"]
    /\ hist = [base |-> subnet.octet, calls |-> 0, concurrent |-> FALSE,
               first |-> "none", last |-> "none", failed |-> FALSE,
               lastFail |-> NoFail,
               ops |-> [h \in HookCallers |-> << >>]]

(***************************************************************************)
(* LockDo, setNetwork, Close, New                                          *)
(***************************************************************************)
\* the handle a thread passes to setNetwork: New passes homenet, Close nil
NewNetwork(t) == IF t = "main" THEN "homenet" ELSE "nil"

\* vpn.locker.Lock() of LockDo; sync.Mutex is not reentrant
LockDoLock(t) ==
    /\ tpc[t] \in {"LockDo_Close", "LockDo_setNetwork"}
    /\ locker = "free"
    /\ locker' = t
    /\ tpc' = [tpc EXCEPT ![t] = IF @ = "LockDo_Close" THEN "LockDo_setNetwork"
                                                       ELSE "RemoveHooker"]
    /\ UNCHANGED <<pollVars, network, hookers, devClosed, recVars, pumpVars>>

\* oldNetwork := vpn.GetNetwork(); if oldNetwork != nil { oldNetwork.RemoveHooker(vpn) }
setNetworkRemoveHooker(t) ==
    /\ tpc[t] = "RemoveHooker"
    /\ hookers' = IF network \in {"unset", "nil"} THEN hookers ELSE hookers \ {network}
    /\ tpc' = [tpc EXCEPT ![t] = "Store"]
    /\ UNCHANGED <<pollVars, network, locker, devClosed, recVars, pumpVars>>

\* vpn.network.Store(newNetwork)
setNetworkStore(t) ==
    /\ tpc[t] = "Store"
    /\ network' = NewNetwork(t)
    /\ tpc' = [tpc EXCEPT ![t] = "AddHooker"]
    /\ UNCHANGED <<pollVars, hookers, locker, devClosed, recVars, pumpVars>>

\* a setNetwork that forgets to register with the new handle
AddHookerForgotten(registered, newNetwork) == registered

\* line 95: the handles the vpn is registered with after newNetwork.AddHooker(vpn)
AddHooker(registered, newNetwork) == registered \cup {newNetwork}

\* newNetwork.AddHooker(vpn); a nil handle is dereferenced
setNetworkAddHooker(t) ==
    /\ tpc[t] = "AddHooker"
    /\ IF NewNetwork(t) = "nil"
         THEN /\ tpc' = [tpc EXCEPT ![t] = "panic"]
              /\ UNCHANGED hookers
         ELSE /\ hookers' = AddHooker(hookers, NewNetwork(t))
              /\ tpc' = [tpc EXCEPT ![t] = "Unlock"]
    /\ UNCHANGED <<pollVars, network, locker, devClosed, recVars, pumpVars>>

\* the deferred vpn.locker.Unlock() of setNetwork's LockDo.  New goes on to
\* start the pump.  Close goes on to tapIface.Close() and then to
\* vpn.closeChan <- struct{}{}: closeChan is never made, and a send on a nil
\* channel never completes, so a closer stays at "closeChan_send".
LockDoUnlock(t) ==
    /\ tpc[t] = "Unlock"
    /\ locker' = "free"
    /\ IF t = "main"
         THEN /\ tpc' = [tpc EXCEPT ![t] = "go"]
              /\ UNCHANGED devClosed
         ELSE /\ tpc' = [tpc EXCEPT ![t] = "closeChan_send"]
              /\ devClosed' = TRUE
    /\ UNCHANGED <<pollVars, network, hookers, recVars, pumpVars>>

\* Close() is called, as OnHomenetClose by the control plane the vpn is
\* registered with
Close(c) ==
    /\ tpc[c] = "idle"
    /\ network \in hookers
    /\ tpc' = [tpc EXCEPT ![c] = "LockDo_Close"]
    /\ UNCHANGED <<pollVars, network, hookers, locker, devClosed, recVars, pumpVars>>

\* Close() is called once more, while or after an earlier call runs
CloseAgain(c) ==
    /\ tpc[c] = "idle"
    /\ \E o \in Closers : tpc[o] # "idle"
    /\ tpc' = [tpc EXCEPT ![c] = "LockDo_Close"]
    /\ UNCHANGED <<pollVars, network, hookers, locker, devClosed, recVars, pumpVars>>

(***************************************************************************)
(* Reconciliation of the own address                                       *)
(***************************************************************************)
Others(h) == HookCallers \ {h}

\* a reconciler that runs on every event
AliasChangedAlways(old, new) == TRUE

\* line 270: the condition under which updatePeers reconciles
AliasChanged(old, new) == old # new

\* an alias recorded before the result of SetLinkUp is looked at
CommittedAliasEarly(old, new, ok) == new

\* line 259-264: vpn.oldPeerIntAlias after SetLinkUp returned
CommittedAlias(old, new, ok) == IF ok THEN new ELSE old

\* line 233: the alias does not fit the host bits of the mask
WrongMask(a, hostBits) == a >= 2 ^ hostBits

\* a guard that lets a sum of 256 through
OctetExhaustedOffByOne(octet, a) == octet + a > 256

\* line 238: the last octet would pass 255
OctetExhausted(octet, a) == octet + a > 255

\* line 241: myAddress[len(myAddress)-1] += uint8(peerIntAlias)
AddOctet(octet, a) == (octet + (a % 256)) % 256

Did(h, op) == [hist EXCEPT !.ops[h] = Append(@, op)]

\* a step of the transition failed: the error goes back to the hook caller
Fail(h, step) ==
    /\ hpc' = [hpc EXCEPT ![h] = "idle"]
    /\ halias' = [halias EXCEPT ![h] = 0]
    /\ hret' = [hret EXCEPT ![h] = "err"]
    /\ hist' = [hist EXCEPT !.last = "failed", !.failed = TRUE, !.ops[h] = << >>,
                            !.lastFail =
                                [alias |-> halias[h], step |-> step,
                                 clean |-> subnet.octet = hist.base + halias[h]]]

\* the control plane, whose own alias is now a, delivers a membership event
\* to the registered hooker; line 268 reads the own alias
OnHomenetUpdatePeers(h) ==
    /\ hpc[h] = "idle"
    /\ network \in hookers
    /\ hist.calls < MaxCalls
    /\ \E a \in Aliases :
          /\ selfAlias' = a
          /\ halias' = [halias EXCEPT ![h] = a]
    /\ hpc' = [hpc EXCEPT ![h] = "updatePeers"]
    /\ hret' = [hret EXCEPT ![h] = "none"]
    /\ hist' = [hist EXCEPT !.calls = @ + 1,
                            !.concurrent = @ \/ (\E o \in Others(h) : hpc[o] # "idle")]
    /\ UNCHANGED <<pollVars, ctlVars, pumpVars, oldPeerIntAlias, subnet, linkMAC, linkIP, linkUp>>

\* line 270-276
updatePeers(h) ==
    /\ hpc[h] = "updatePeers"
    /\ LET changed == AliasChanged(oldPeerIntAlias, halias[h])
           first == IF hist.first # "none" THEN hist.first
                    ELSE IF changed THEN "reconciled" ELSE "skipped"
       IN /\ hpc' = [hpc EXCEPT ![h] = IF changed THEN "updateMAC" ELSE "idle"]
          /\ halias' = [halias EXCEPT ![h] = IF changed THEN @ ELSE 0]
          /\ hret' = [hret EXCEPT ![h] = IF changed THEN "none" ELSE "nil"]
          /\ hist' = [hist EXCEPT !.first = first,
                                  !.last = IF changed THEN @ ELSE "noop"]
    /\ UNCHANGED <<pollVars, ctlVars, pumpVars, selfAlias, oldPeerIntAlias, subnet, linkMAC, linkIP, linkUp>>

\* line 221-229, called from line 251
updateMAC(h) ==
    /\ hpc[h] = "updateMAC"
    /\ \E ok \in BOOLEAN :
          IF ok
          THEN /\ linkMAC' = GenerateHomenetMAC(halias[h])
               /\ hpc' = [hpc EXCEPT ![h] = "updateIPAddress"]
               /\ hist' = Did(h, "mac")
               /\ UNCHANGED <<hret, halias>>
          ELSE /\ Fail(h, "mac")
               /\ UNCHANGED linkMAC
    /\ UNCHANGED <<pollVars, ctlVars, pumpVars, selfAlias, oldPeerIntAlias, subnet, linkIP, linkUp>>

\* line 232-240: the two checks of updateIPAddress
updateIPAddress(h) ==
    /\ hpc[h] = "updateIPAddress"
    /\ IF WrongMask(halias[h], subnet.hostBits)
         THEN Fail(h, "mask")
         ELSE IF OctetExhausted(subnet.octet, halias[h])
         THEN Fail(h, "exhausted")
         ELSE /\ hpc' = [hpc EXCEPT ![h] = "addOctet"]
              /\ UNCHANGED <<hret, hist, halias>>
    /\ UNCHANGED <<pollVars, ctlVars, pumpVars, selfAlias, oldPeerIntAlias, subnet, linkMAC, linkIP, linkUp>>

\* line 237, 241: myAddress aliases vpn.subnet.IP, the addition is in place
updateIPAddressAdd(h) ==
    /\ hpc[h] = "addOctet"
    /\ subnet' = [subnet EXCEPT !.octet = AddOctet(@, halias[h])]
    /\ hpc' = [hpc EXCEPT ![h] = "SetLinkIp"]
    /\ hist' = Did(h, "subnet")
    /\ UNCHANGED <<pollVars, ctlVars, pumpVars, selfAlias, oldPeerIntAlias, linkMAC, linkIP, linkUp, halias,
                   hret>>

\* line 243-247: vpn.tapLink.SetLinkIp(myAddress, &vpn.subnet)
updateIPAddressSetLinkIp(h) ==
    /\ hpc[h] = "SetLinkIp"
    /\ \E ok \in BOOLEAN :
          IF ok
          THEN /\ linkIP' = subnet.octet
               /\ hpc' = [hpc EXCEPT ![h] = "SetLinkUp"]
               /\ hist' = Did(h, "ip")
               /\ UNCHANGED <<hret, halias>>
          ELSE /\ Fail(h, "ip")
               /\ UNCHANGED linkIP
    /\ UNCHANGED <<pollVars, ctlVars, pumpVars, selfAlias, oldPeerIntAlias, subnet, linkMAC, linkUp>>

\* line 259-264: vpn.tapLink.SetLinkUp(), then the alias is recorded
updatePeerIntAlias(h) ==
    /\ hpc[h] = "SetLinkUp"
    /\ \E ok \in BOOLEAN :
          /\ oldPeerIntAlias' = CommittedAlias(oldPeerIntAlias, halias[h], ok)
          /\ IF ok
             THEN /\ linkUp' = TRUE
                  /\ hpc' = [hpc EXCEPT ![h] = "idle"]
                  /\ halias' = [halias EXCEPT ![h] = 0]
                  /\ hret' = [hret EXCEPT ![h] = "nil"]
                  /\ hist' = [hist EXCEPT !.last = "applied", !.ops[h] = << >>,
                                          !.lastFail = NoFail]
             ELSE /\ Fail(h, "up")
                  /\ UNCHANGED linkUp
    /\ UNCHANGED <<pollVars, ctlVars, pumpVars, selfAlias, subnet, linkMAC, linkIP>>

(***************************************************************************)
(* The frame pump, tapReadHandler                                          *)
(***************************************************************************)
\* New, line 68: go r.tapReadHandler(); line 108-116 set up the buffer and
\* the channel and start the reader goroutine
NewGo ==
    /\ tpc["main"] = "go"
    /\ tpc' = [tpc EXCEPT !["main"] = "done"]
    /\ rpc' = "loop"
    /\ dpc' = "loop"
    /\ UNCHANGED <<pollVars, network, hookers, locker, devClosed, recVars,
                   framebuf, pending, msg, others, nReads, sent, phist>>

\* destinations of the frames the device hands out
MaxDestAlias == 3
FrameDests ==
    {GenerateHomenetMAC(a) : a \in 0..MaxDestAlias} \cup {BroadcastMAC, ForeignMAC}

\* line 99-105: GetNetwork() is nil for an empty slot and for a stored nil
GetNetworkIsNil(slot) == slot \in {"unset", "nil"}

\* the directory of the control plane: this peer, then the others present
PeerRec(id, alias) == [id |-> id, alias |-> alias]
GetPeers(oth, self) ==
    <<PeerRec(SelfPeerID, self)>>
      \o (IF "p1" \in oth THEN <<PeerRec("p1", PeerAlias("p1"))>> ELSE << >>)
      \o (IF "p2" \in oth THEN <<PeerRec("p2", PeerAlias("p2"))>> ELSE << >>)

PresentAliases(peers) == {Uint32(peers[i].alias) : i \in 1..Len(peers)}

\* network.GetPeerByIntAlias: the record of that alias, or << >> for nil
GetPeerByIntAlias(peers, alias) ==
    LET idx == {i \in 1..Len(peers) : Uint32(peers[i].alias) = alias}
    IN IF idx = {} THEN << >>
       ELSE <<peers[CHOOSE i \in idx : \A j \in idx : i <= j]>>

\* line 199-211 with the callback of line 155-158, which always returns
\* true: the peers SendToPeer is called for, in order
RECURSIVE ForeachPeer(_, _)
ForeachPeer(peers, myPeerID) ==
    IF peers = << >> THEN << >>
    ELSE IF Head(peers).id = myPeerID THEN ForeachPeer(Tail(peers), myPeerID)
    ELSE <<Head(peers).id>> \o ForeachPeer(Tail(peers), myPeerID)

Attempt(peerID) == [peer |-> peerID, bytes |-> framebuf.id]

\* a forwarding path that reads the handle inside LockDo
ForwardingReadyInLockDo(lock) == lock = "free"

\* line 192 and 200: the handle is read with GetNetwork(), an atomic load
\* (line 100); no LockDo on the way, so the lookup and the iteration can run
\* whoever holds vpn.locker
ForwardingReady(lock) == TRUE

\* line 117: the loop condition of the reader goroutine
ReaderLoop ==
    /\ rpc = "loop"
    /\ rpc' = IF GetNetworkIsNil(network) THEN "exit" ELSE "Read"
    /\ UNCHANGED <<pollVars, ctlVars, recVars, dpc, framebuf, pending, msg, others, nReads, sent,
                   phist>>

\* line 118: vpn.tapIface.Read([]byte(framebuf)) returns a frame, written
\* into the shared buffer, or an error
ReaderRead ==
    /\ rpc = "Read"
    /\ nReads < MaxReads
    /\ nReads' = nReads + 1
    /\ rpc' = "send"
    /\ \E failed \in BOOLEAN :
          IF failed
          THEN /\ pending' = [err |-> TRUE, id |-> nReads + 1, dst |-> ZeroMAC]
               /\ UNCHANGED <<framebuf, phist>>
          ELSE \E d \in FrameDests :
                  /\ framebuf' = [dst |-> d, id |-> nReads + 1]
                  /\ pending' = [err |-> FALSE, id |-> nReads + 1, dst |-> d]
                  /\ phist' = [phist EXCEPT !.overwritten =
                                   @ \/ dpc \in {"classify", "classifyBroadcast",
                                                 "unicast", "broadcast"}]
    /\ UNCHANGED <<pollVars, ctlVars, recVars, dpc, msg, others, sent>>

\* line 125: the loop condition of the dispatch loop
DispatchLoop ==
    /\ dpc = "loop"
    /\ dpc' = IF GetNetworkIsNil(network) THEN "exit" ELSE "select"
    /\ UNCHANGED <<pollVars, ctlVars, recVars, rpc, framebuf, pending, msg, others, nReads, sent,
                   phist>>

\* a loop that gives up on a read error
AfterReceiveReturnOnError(m) == IF m.err THEN "exit" ELSE "classify"

\* line 132-136: where the loop goes after it received a readChanMsg; with
\* an error it logs and sleeps, and then goes on as without
AfterReceive(m) == "classify"

\* line 119 and 127-135: readChan is unbuffered, the send of the reader and
\* the receive of the dispatch loop are one step.  closeChan is nil, its
\* case is never ready.  An error is logged and slept on, no more.
readChanHandoff ==
    /\ rpc = "send"
    /\ dpc = "select"
    /\ msg' = pending
    /\ rpc' = "loop"
    /\ dpc' = AfterReceive(pending)
    /\ sent' = << >>
    /\ phist' = NewIteration
    /\ UNCHANGED <<pollVars, ctlVars, recVars, framebuf, pending, others, nReads>>

\* line 136-141: dstMAC is a slice of the shared buffer; isHomenetDST is
\* computed from the bytes in the buffer now
Classify ==
    /\ dpc = "classify"
    /\ dpc' = IF IsHomenet(framebuf.dst) THEN "unicast" ELSE "classifyBroadcast"
    /\ UNCHANGED <<pollVars, ctlVars, recVars, rpc, framebuf, pending, msg, others, nReads, sent,
                   phist>>

\* line 142-147: isBroadcastDST is computed from the bytes in the buffer
\* now; a frame that is neither is dropped by the continue of line 145
ClassifyBroadcast ==
    /\ dpc = "classifyBroadcast"
    /\ IF IsBroadcast(framebuf.dst)
         THEN /\ dpc' = "broadcast"
              /\ UNCHANGED phist
         ELSE /\ dpc' = "loop"
              /\ phist' = [phist EXCEPT !.branch = "drop"]
    /\ UNCHANGED <<pollVars, ctlVars, recVars, rpc, framebuf, pending, msg, others, nReads, sent>>

\* line 149-152 and 191-197: the alias is decoded from the shared buffer
SendToPeerByIntAlias ==
    /\ dpc = "unicast"
    /\ ForwardingReady(locker)
    /\ LET peers == GetPeers(others, selfAlias)
           alias == MACGetPeerIntAlias(framebuf.dst)
           peer == GetPeerByIntAlias(peers, alias)
       IN /\ sent' = IF peer = << >> THEN sent ELSE Append(sent, Attempt(peer[1].id))
          /\ phist' = [phist EXCEPT !.underLock = locker # "free",
                                    !.branch = "unicast",
                                    !.lookup =
                                        [done |-> TRUE, alias |-> alias,
                                         peers |-> peers,
                                         notFound |-> peer = << >>]]
    /\ dpc' = "loop"
    /\ UNCHANGED <<pollVars, ctlVars, recVars, rpc, framebuf, pending, msg, others, nReads>>

\* line 154-160 and 199-211
Broadcast ==
    /\ dpc = "broadcast"
    /\ ForwardingReady(locker)
    /\ LET to == ForeachPeer(GetPeers(others, selfAlias), SelfPeerID)
       IN sent' = sent \o [i \in 1..Len(to) |-> Attempt(to[i])]
    /\ phist' = [phist EXCEPT !.underLock = locker # "free", !.branch = "broadcast"]
    /\ dpc' = "loop"
    /\ UNCHANGED <<pollVars, ctlVars, recVars, rpc, framebuf, pending, msg, others, nReads>>

\* the control plane: a peer joins or leaves
PeerJoinLeave ==
    /\ \E p \in OtherPeers :
          others' = IF p \in others THEN others \ {p} ELSE others \cup {p}
    /\ phist' = [phist EXCEPT !.dirChanged = TRUE]
    /\ UNCHANGED <<pollVars, ctlVars, recVars, rpc, dpc, framebuf, pending, msg, nReads, sent>>

(***************************************************************************)
(* The polling loop of main                                                *)
(***************************************************************************)
\* a loop that treats an error as the code before the loop does, with fatalIf
fatalIfInLoop(ok, next) == IF ok THEN next ELSE "exit"

\* line 111-113, 116-118, 121-123: an error is handed to logrus.Errorf and
\* main goes on to the next statement
logrusErrorf(ok, next) == next

Called(op, ok, arg) == [op |-> op, ok |-> ok, peers |-> arg]

Failures(ops) == Cardinality({i \in 1..Len(ops) : ~ops[i].ok})

\* line 108-109: for { <-ticker.C
mainTicker ==
    /\ mainpc = "ticker"
    /\ tick < MaxTicks
    /\ tick' = tick + 1
    /\ mainpc' = "RegisterPeer"
    /\ prevFailures' = Failures(pollOps)
    /\ pollOps' = << >>
    /\ UNCHANGED <<ctlVars, recVars, pumpVars, tickPeers>>

\* line 110-113: homenetServer.RegisterPeer(...)
mainRegisterPeer ==
    /\ mainpc = "RegisterPeer"
    /\ \E ok \in BOOLEAN :
          /\ pollOps' = Append(pollOps, Called("RegisterPeer", ok, {}))
          /\ mainpc' = logrusErrorf(ok, "GetPeers")
    /\ UNCHANGED <<ctlVars, recVars, pumpVars, tick, tickPeers, prevFailures>>

\* line 114-118: _, peers, err := homenetServer.GetPeers(...); with or
\* without error, peers is what the call returned
mainGetPeers ==
    /\ mainpc = "GetPeers"
    /\ \E ok \in BOOLEAN, ps \in SUBSET OtherPeers :
          /\ tickPeers' = ps
          /\ pollOps' = Append(pollOps, Called("GetPeers", ok, ps))
          /\ mainpc' = logrusErrorf(ok, "UpdatePeers")
    /\ UNCHANGED <<ctlVars, recVars, pumpVars, tick, prevFailures>>

\* line 119-123: err = homenet.UpdatePeers(peers)
mainUpdatePeers ==
    /\ mainpc = "UpdatePeers"
    /\ \E ok \in BOOLEAN :
          /\ pollOps' = Append(pollOps, Called("UpdatePeers", ok, tickPeers))
          /\ mainpc' = logrusErrorf(ok, "ticker")
    /\ UNCHANGED <<ctlVars, recVars, pumpVars, tick, tickPeers, prevFailures>>

(***************************************************************************)
(* The next-state relation, in three parts: construction and teardown,     *)
(* reconciliation, the pump.  The reconciliation actions read and write    *)
(* none of the pump's variables and the pump's actions none of the         *)
(* reconciliation's (they read network, selfAlias and the directory only), *)
(* so SpecReconcile and SpecPump are the program with no frame arriving,   *)
(* and with no membership event delivered.                                 *)
(***************************************************************************)
NextLifecycle ==
    \/ \E t \in Threads : \/ LockDoLock(t)
                          \/ setNetworkRemoveHooker(t)
                          \/ setNetworkStore(t)
                          \/ setNetworkAddHooker(t)
                          \/ LockDoUnlock(t)
    \/ NewGo
    \/ \E c \in Closers : Close(c)

NextReconcile ==
    \E h \in HookCallers : \/ OnHomenetUpdatePeers(h)
                           \/ updatePeers(h)
                           \/ updateMAC(h)
                           \/ updateIPAddress(h)
                           \/ updateIPAddressAdd(h)
                           \/ updateIPAddressSetLinkIp(h)
                           \/ updatePeerIntAlias(h)

NextPump ==
    \/ ReaderLoop
    \/ ReaderRead
    \/ DispatchLoop
    \/ readChanHandoff
    \/ Classify
    \/ ClassifyBroadcast
    \/ SendToPeerByIntAlias
    \/ Broadcast
    \/ PeerJoinLeave

NextPoll ==
    \/ mainTicker
    \/ mainRegisterPeer
    \/ mainGetPeers
    \/ mainUpdatePeers

Next == NextLifecycle \/ NextReconcile \/ NextPump \/ NextPoll

Spec == Init /\ [][Next]_vars

SpecReconcile == Init /\ [][NextLifecycle \/ NextReconcile]_vars

SpecPump == Init /\ [][NextLifecycle \/ NextPump]_vars

\* the polling loop of main alone
SpecPoll == Init /\ [][NextPoll]_vars

(***************************************************************************)
(* Fairness: the Go scheduler runs every goroutine that can take a step.   *)
(* The arrivals from outside (a frame on the device, a membership event,   *)
(* a peer joining, a call of Close) are not forced.                        *)
(***************************************************************************)
ThreadStep(t) ==
    \/ LockDoLock(t)
    \/ setNetworkRemoveHooker(t)
    \/ setNetworkStore(t)
    \/ setNetworkAddHooker(t)
    \/ LockDoUnlock(t)

PumpStep ==
    \/ ReaderLoop
    \/ DispatchLoop
    \/ readChanHandoff
    \/ Classify
    \/ ClassifyBroadcast
    \/ SendToPeerByIntAlias
    \/ Broadcast

Fairness ==
    /\ \A t \in Threads : WF_vars(ThreadStep(t))
    /\ WF_vars(NewGo)
    /\ WF_vars(PumpStep)

SpecPumpFair == Init /\ [][NextLifecycle \/ NextPump]_vars /\ Fairness

\* the program with a second call of Close
NextTeardown == \E c \in SecondClosers : CloseAgain(c)

SpecTeardownFair ==
    Init /\ [][NextLifecycle \/ NextPump \/ NextTeardown]_vars /\ Fairness

(***************************************************************************)
(* Properties                                                              *)
(***************************************************************************)
\* h returns nil from a transition: SetLinkUp succeeded and the alias is recorded
Commits(h) == hpc[h] = "SetLinkUp" /\ hpc'[h] = "idle" /\ hret'[h] = "nil"

\* C1: for membership events delivered one after the other and none of them
\* failing, when updatePeers returns success for an alias A that differs from
\* the last applied one, the link address of the device is the homenet address
\* of A and its IP is the configured base with A added into the last octet,
\* each set once by that call.
C1_AliasApplied ==
    [][\A h \in HookCallers :
          (Commits(h) /\ ~hist.concurrent /\ ~hist.failed) =>
              /\ linkMAC' = GenerateHomenetMAC(halias[h])
              /\ linkIP' = hist.base + halias[h]
              /\ hist.ops[h] = <<"mac", "subnet", "ip">>]_vars

\* C2: a single call of Close eventually returns.
C2_CloseReturns ==
    \A c \in Closers : (tpc[c] = "LockDo_Close") ~> (tpc[c] = "returned")

\* C3: reconciliation, handle swap and teardown exclude each other: at most
\* one of them (and at most one reconciliation) is in progress in any state.
InReconcile(h) == hpc[h] # "idle"
InSetNetwork(t) == tpc[t] \in {"RemoveHooker", "Store", "AddHooker", "Unlock"}
InClose(t) == t \in Closers \cup SecondClosers /\ tpc[t] \notin {"idle", "LockDo_Close"}
InProgress ==
    {h \in HookCallers : InReconcile(h)}
      \cup {t \in Threads : InSetNetwork(t) \/ InClose(t)}

C3_Serialized == Cardinality(InProgress) <= 1

\* the dispatch iteration of a read that returned a frame is over
IterationDone == dpc = "loop" /\ msg.id > 0 /\ ~msg.err

PeersOf(attempts) == [i \in 1..Len(attempts) |-> attempts[i].peer]

\* C4: a frame read from the device whose destination is the homenet address
\* of an alias that is in the directory at the time of the lookup gets exactly
\* one SendToPeer, to the record of that alias.
C4_UnicastDelivered ==
    (/\ IterationDone
     /\ IsHomenet(msg.dst)
     /\ phist.lookup.done
     /\ MACGetPeerIntAlias(msg.dst) \in PresentAliases(phist.lookup.peers))
        => PeersOf(sent) =
             <<GetPeerByIntAlias(phist.lookup.peers, MACGetPeerIntAlias(msg.dst))[1].id>>

\* C5: a frame read from the device whose destination is the homenet address
\* of an alias that is not in the directory at the time of the lookup gets no
\* SendToPeer, the lookup ends in ErrPeerNotFound, and the pump is back at
\* the head of its loop.
C5_AbsentNotDelivered ==
    (/\ IterationDone
     /\ IsHomenet(msg.dst)
     /\ phist.lookup.done
     /\ MACGetPeerIntAlias(msg.dst) \notin PresentAliases(phist.lookup.peers))
        => (sent = << >> /\ phist.lookup.notFound)

\* C6: a frame read from the device whose destination is the broadcast
\* address, the directory holding N peers other than this one and not changing
\* meanwhile, gets exactly N SendToPeer, one for each of them, none for this peer.
C6_BroadcastFanOut ==
    (IterationDone /\ IsBroadcast(msg.dst) /\ ~phist.dirChanged)
        => /\ Len(sent) = Cardinality(others)
           /\ {sent[i].peer : i \in 1..Len(sent)} = others

(***************************************************************************)
(* The dispatch code alone: when no later read lands in the buffer during  *)
(* the iteration, the statements of C4, C5 and C6 hold.                    *)
(***************************************************************************)
UnicastDeliveredIfNotOverwritten == phist.overwritten \/ C4_UnicastDelivered

AbsentNotDeliveredIfNotOverwritten == phist.overwritten \/ C5_AbsentNotDelivered

BroadcastFanOutIfNotOverwritten == phist.overwritten \/ C6_BroadcastFanOut

\* C7: for membership events delivered one after the other, when a transition
\* to alias A from the configured base failed at SetLinkIp or at SetLinkUp
\* and the next transition is to A again and succeeds, the device has the
\* link address of A and the IP base + A.
C7_RetryAfterFailure ==
    [][\A h \in HookCallers :
          (/\ Commits(h)
           /\ ~hist.concurrent
           /\ hist.lastFail.alias = halias[h]
           /\ hist.lastFail.step \in {"ip", "up"}
           /\ hist.lastFail.clean) =>
              /\ linkMAC' = GenerateHomenetMAC(halias[h])
              /\ linkIP' = hist.base + halias[h]]_vars

\* C8: the first updatePeers after construction runs the reconciler, whatever
\* own alias the control plane reports.
C8_FirstEventApplies == hist.first # "skipped"

\* C9: when updatePeers finds the own alias equal to the last applied one, it
\* returns nil and the call has changed nothing: not the link address, not the
\* IP, not the up state, not the stored subnet, not the last applied alias.
C9_NoMutationWhenUnchanged ==
    [][\A h \in HookCallers :
          (hpc[h] = "updatePeers" /\ hpc'[h] # "updatePeers"
             /\ halias[h] = oldPeerIntAlias) =>
              /\ hpc'[h] = "idle"
              /\ hret'[h] = "nil"
              /\ hist.ops[h] = << >>
              /\ UNCHANGED <<linkMAC, linkIP, linkUp, subnet, oldPeerIntAlias>>]_vars

\* a no-op call after an alias other than 0 was applied
C9_Witness ==
    /\ hist.last = "noop"
    /\ oldPeerIntAlias # 0
    /\ linkIP >= 0
    /\ linkMAC = GenerateHomenetMAC(oldPeerIntAlias)

\* C10: a step of a call that fails leaves the last applied alias as it was,
\* hands the error to the hook caller and ends the call (nothing more happens
\* before the next event); the last applied alias changes only in the step
\* that ends a call whose SetLinkMacAddress, SetLinkIp and SetLinkUp all
\* succeeded, and then to the alias of that call.
C10_FailureKeepsAlias ==
    [][/\ \A h \in HookCallers :
             (hpc[h] # "idle" /\ hret'[h] = "err") =>
                 (oldPeerIntAlias' = oldPeerIntAlias /\ hpc'[h] = "idle")
       /\ (oldPeerIntAlias' # oldPeerIntAlias) =>
             \E h \in HookCallers :
                 /\ Commits(h)
                 /\ hist.ops[h] = <<"mac", "subnet", "ip">>
                 /\ oldPeerIntAlias' = halias[h]]_vars

\* SetLinkUp failed for an alias that is not the last applied one
C10_Witness ==
    /\ hist.last = "failed"
    /\ hist.lastFail.step = "up"
    /\ \E h \in HookCallers : hret[h] = "err"
    /\ oldPeerIntAlias # hist.lastFail.alias
    /\ linkMAC = GenerateHomenetMAC(hist.lastFail.alias)

\* C11: for membership events delivered one after the other, when the call
\* that follows a successful one fails at SetLinkMacAddress, SetLinkIp or
\* SetLinkUp, the device and the stored subnet are left as they were: the link
\* address and the IP are those of the last applied alias, and the call has
\* not written vpn.subnet.
LinkSteps == {"mac", "ip", "up"}

FailsAtLinkStep(h) ==
    /\ hpc[h] # "idle"
    /\ hret'[h] = "err"
    /\ hist'.lastFail.step \in LinkSteps

C11_FailurePreservesState ==
    [][\A h \in HookCallers :
          (FailsAtLinkStep(h) /\ ~hist.concurrent /\ ~hist.failed
             /\ hist.last = "applied") =>
              /\ linkMAC' = GenerateHomenetMAC(oldPeerIntAlias)
              /\ linkIP' = hist.base + oldPeerIntAlias
              /\ subnet' = subnet
              /\ hist.ops[h] = << >>]_vars

\* h is at the two checks of updateIPAddress, with the alias and the last
\* octet of vpn.subnet.IP the call was handed
AtIPChecks(h) == hpc[h] = "updateIPAddress" /\ hpc'[h] # "updateIPAddress"

FailsWith(h, step) == hret'[h] = "err" /\ hist'.lastFail.step = step

C13_SecondCloseReturns ==
    \A c \in SecondClosers : (tpc[c] = "LockDo_Close") ~> (tpc[c] = "returned")

\* C14: the forwarding path never waits for vpn.locker: whenever the dispatch
\* loop is about to look a peer up (unicast) or to iterate the peers
\* (broadcast), that step can be taken at once, whoever holds the lock, and
\* the handle it loads is one that was stored whole by New or by setNetwork,
\* never an empty or half-written slot.
C14_ForwardingNeverWaits ==
    /\ (dpc = "unicast") => ENABLED SendToPeerByIntAlias
    /\ (dpc = "broadcast") => ENABLED Broadcast
    /\ (dpc \in {"unicast", "broadcast"}) =>
           \E t \in Threads : network = NewNetwork(t)

\* a frame was delivered to a peer while a goroutine held vpn.locker
C14_Witness ==
    /\ dpc = "loop"
    /\ phist.underLock
    /\ locker # "free"
    /\ Len(sent) > 0

\* C15: whenever no goroutine is inside the body of setNetwork, the vpn is
\* registered as a hooker on exactly the handle stored in vpn.network (on none
\* when the slot is empty or holds nil); it is never registered on two handles;
\* and at the step that registers it on a handle it is registered on no other.
RegisteredOnStored ==
    hookers = (IF GetNetworkIsNil(network) THEN {} ELSE {network})

C15_OneRegistration ==
    /\ []((\A t \in Threads : ~InSetNetwork(t)) => RegisteredOnStored)
    /\ [](Cardinality(hookers) <= 1)
    /\ [][(hookers' # hookers /\ hookers' \ hookers # {}) =>
              (hookers = {} /\ hookers' = {network} /\ ~GetNetworkIsNil(network))]_vars

\* the setNetwork of New is over and a Close has been called since
C15_Witness ==
    /\ tpc["main"] \in {"go", "done"}
    /\ \A t \in Threads : ~InSetNetwork(t)
    /\ network = "homenet"
    /\ hookers = {"homenet"}
    /\ \E c \in Closers : tpc[c] = "LockDo_setNetwork"

\* C16: the dispatch iteration of a read that returned an error, no later
\* read having written into the buffer meanwhile, looks no peer up, iterates
\* no peers and calls SendToPeer for nobody.
C16_ErrorReadNotDispatched ==
    (msg.err /\ ~phist.overwritten) =>
        (dpc \notin {"unicast", "broadcast"} /\ sent = << >>)

\* C17: while the dispatch loop processes the frame of a read, the shared
\* buffer holds the bytes that read returned, and every SendToPeer of the
\* iteration is handed those bytes.
C17_BufferStableDuringDispatch ==
    (msg.id > 0 /\ ~msg.err) =>
        /\ (dpc \in {"classify", "classifyBroadcast", "unicast", "broadcast"}) =>
               (framebuf.id = msg.id /\ framebuf.dst = msg.dst)
        /\ \A i \in 1..Len(sent) : sent[i].bytes = msg.id

\* C18: the dispatch loop leaves only from the head of the loop and only when
\* the handle is not set; an iteration, whatever the read returned and
\* whatever the lookup or the delivery returned, ends at the head of the loop.
InIteration == {"classify", "classifyBroadcast", "unicast", "broadcast"}

C18_LoopSurvivesErrors ==
    [][/\ (dpc # "exit" /\ dpc' = "exit") =>
              (dpc = "loop" /\ network \in {"unset", "nil"})
       /\ (dpc = "select") => (dpc' \in InIteration \cup {"select"})
       /\ (dpc \in InIteration) => (dpc' \in InIteration \cup {"loop"})]_vars

\* the loop is waiting for the next read after an iteration whose read
\* returned an error and whose lookup returned ErrPeerNotFound
C18_Witness ==
    /\ dpc = "select"
    /\ msg.err
    /\ phist.lookup.done
    /\ phist.lookup.notFound

\* C19: a frame read from the device whose destination is neither a homenet
\* address nor the broadcast address is dropped: its iteration takes the drop
\* branch, looks no peer up and calls SendToPeer for nobody; and every
\* iteration that is over has taken exactly one of the three branches.
C19_OtherFramesDropped ==
    /\ (IterationDone /\ ~IsHomenet(msg.dst) /\ ~IsBroadcast(msg.dst)) =>
           (phist.branch = "drop" /\ ~phist.lookup.done /\ sent = << >>)
    /\ (dpc = "loop" /\ msg.id > 0) => phist.branch \in {"unicast", "broadcast", "drop"}

\* the dispatch code alone: the statement of C19 when no later read lands in
\* the buffer during the iteration
OtherFramesDroppedIfNotOverwritten == phist.overwritten \/ C19_OtherFramesDropped

\* C20: in every tick of the polling loop RegisterPeer, GetPeers and
\* UpdatePeers are called in that order, each once, whatever the earlier calls
\* of the tick returned; UpdatePeers is handed the peers the GetPeers of the
\* tick returned; and main never leaves the loop.
TickOrder == <<"RegisterPeer", "GetPeers", "UpdatePeers">>

CallsDoneAt(pc) ==
    IF pc = "RegisterPeer" THEN 0
    ELSE IF pc = "GetPeers" THEN 1
    ELSE IF pc = "UpdatePeers" THEN 2
    ELSE IF tick = 0 THEN 0 ELSE 3

C20_TickRunsAllThree ==
    /\ mainpc \in {"ticker", "RegisterPeer", "GetPeers", "UpdatePeers"}
    /\ Len(pollOps) = CallsDoneAt(mainpc)
    /\ \A i \in 1..Len(pollOps) : pollOps[i].op = TickOrder[i]
    /\ Len(pollOps) = 3 => pollOps[3].peers = pollOps[2].peers

\* a tick in which the three calls failed has been followed by a whole tick,
\* in which GetPeers failed and UpdatePeers was called with what it returned
C20_Witness ==
    /\ mainpc = "ticker"
    /\ tick >= 2
    /\ prevFailures = 3
    /\ Len(pollOps) = 3
    /\ ~pollOps[2].ok
    /\ pollOps[3].peers = pollOps[2].peers
    /\ pollOps[3].peers # {}

=============================================================================
